---------------------------- MODULE Spec2Model ----------------------------
(***************************************************************************)
(* A model of the in-browser job search and retrieval engine:              *)
(*   - OptimizedJobsDataService (src/lib/optimized-jobs-data-service.ts)   *)
(*   - the useOptimizedJobs hook (src/unnamed/part_009)                    *)
(*                                                                         *)
(* JavaScript strings are TLA+ strings (\o, Len and SubSeq work on them),  *)
(* so that template-literal ids and cache keys are concatenated as the     *)
(* code concatenates them.  `limit?: number` is a natural number where 0   *)
(* stands for "absent": the code tests it only by truthiness.              *)
(***************************************************************************)
EXTENDS Integers, Sequences, FiniteSets, TLC

(***************************************************************************)
(* Bounds of the model.                                                    *)
(***************************************************************************)
MaxJobs == 2
MaxSteps == 2
\* the page size of useOptimizedJobs (CHUNK_SIZE, 50 in src/unnamed/part_009
\* line 30), scaled to the record lists of the model
ChunkSize == 1

(***************************************************************************)
(* Strings.                                                                *)
(***************************************************************************)
Char(s, i) == SubSeq(s, i, i)

\* UTF-16 code unit order restricted to the characters the model uses.
CharOrder == " ,-0123456789:ABCDEFGHIJKLMNOPQRSTUVWXYZ_abcdefghijklmnopqrstuvwxyz"
UpperChars == "ABCDEFGHIJKLMNOPQRSTUVWXYZ"
LowerChars == "abcdefghijklmnopqrstuvwxyz"

CharRanks == [c \in {Char(CharOrder, i) : i \in 1..Len(CharOrder)} |->
                CHOOSE i \in 1..Len(CharOrder) : Char(CharOrder, i) = c]

CharRank(c) == CharRanks[c]

LowerOf == [c \in {Char(UpperChars, i) : i \in 1..Len(UpperChars)} |->
              Char(LowerChars, CHOOSE i \in 1..Len(UpperChars) : Char(UpperChars, i) = c)]

ToLowerChar(c) == IF c \in DOMAIN LowerOf THEN LowerOf[c] ELSE c

RECURSIVE ToLowerCase(_)
ToLowerCase(s) ==
  IF Len(s) = 0 THEN ""
  ELSE ToLowerChar(Char(s, 1)) \o ToLowerCase(SubSeq(s, 2, Len(s)))

RECURSIVE TrimStart(_)
TrimStart(s) ==
  IF Len(s) > 0 /\ Char(s, 1) = " " THEN TrimStart(SubSeq(s, 2, Len(s))) ELSE s

RECURSIVE TrimEnd(_)
TrimEnd(s) ==
  IF Len(s) > 0 /\ Char(s, Len(s)) = " " THEN TrimEnd(SubSeq(s, 1, Len(s) - 1)) ELSE s

Trim(s) == TrimEnd(TrimStart(s))

\* String.prototype.includes
Includes(s, sub) ==
  \E i \in 1..(Len(s) - Len(sub) + 1) : SubSeq(s, i, i + Len(sub) - 1) = sub

StartsWith(s, pre) == Len(pre) <= Len(s) /\ SubSeq(s, 1, Len(pre)) = pre

\* s.split(sep)[0] for a one-character separator
RECURSIVE SplitFirst(_, _)
SplitFirst(s, sep) ==
  IF Len(s) = 0 \/ Char(s, 1) = sep THEN ""
  ELSE Char(s, 1) \o SplitFirst(SubSeq(s, 2, Len(s)), sep)

\* the default comparison of Array.prototype.sort on strings
RECURSIVE StrLess(_, _)
StrLess(s, t) ==
  IF Len(t) = 0 THEN FALSE
  ELSE IF Len(s) = 0 THEN TRUE
  ELSE IF Char(s, 1) = Char(t, 1)
       THEN StrLess(SubSeq(s, 2, Len(s)), SubSeq(t, 2, Len(t)))
       ELSE CharRank(Char(s, 1)) < CharRank(Char(t, 1))

RECURSIVE InsertSorted(_, _)
InsertSorted(x, sorted) ==
  IF Len(sorted) = 0 THEN <<x>>
  ELSE IF StrLess(x, Head(sorted)) THEN <<x>> \o sorted
  ELSE <<Head(sorted)>> \o InsertSorted(x, Tail(sorted))

RECURSIVE SortStrings(_)
SortStrings(seq) ==
  IF Len(seq) = 0 THEN <<>> ELSE InsertSorted(Head(seq), SortStrings(Tail(seq)))

RECURSIVE Join(_, _)
Join(seq, sep) ==
  IF Len(seq) = 0 THEN ""
  ELSE IF Len(seq) = 1 THEN Head(seq)
  ELSE Head(seq) \o sep \o Join(Tail(seq), sep)

\* Array.prototype.slice(start, end) with 0 <= start
Slice(seq, start, end) ==
  SubSeq(seq, start + 1, IF end < Len(seq) THEN end ELSE Len(seq))

SliceFrom(seq, start) == SubSeq(seq, start + 1, Len(seq))


(***************************************************************************)
(* Data model.  The records come out of JSON.parse, so a coordinate is a   *)
(* number, Infinity (a literal such as 1e999), null, a string that is not  *)
(* numeric (such as "n/a"), or undefined (the property is missing).        *)
(***************************************************************************)
Num(n) == [kind |-> "number", value |-> n]
Infinity == [kind |-> "Infinity", value |-> 0]
Null == [kind |-> "null", value |-> 0]
Text == [kind |-> "string", value |-> 0]
Undefined == [kind |-> "undefined", value |-> 0]

\* a coordinate used as a condition: 0, null and undefined are falsy
Truthy(c) == c.kind \in {"Infinity", "string"} \/ (c.kind = "number" /\ c.value # 0)
\* the global isNaN(): Number("n/a") and Number(undefined) are NaN, Number(null) is 0
IsNaN(c) == c.kind \in {"string", "undefined"}

LocBern == [city |-> "Bern", address |-> "", latitude |-> Num(46), longitude |-> Num(7)]
LocBasel == [city |-> "Basel", address |-> "Gasse 1", latitude |-> Num(47), longitude |-> Num(8)]
LocText == [city |-> "Bern", address |-> "", latitude |-> Num(46), longitude |-> Text]
LocZero == [city |-> "Chur", address |-> "", latitude |-> Num(0), longitude |-> Num(9)]

JobA == [id |-> "a", title |-> "java", company |-> "acme", locations |-> <<>>]
JobB == [id |-> "b", title |-> "senior", company |-> "java", locations |-> <<LocText>>]
JobC == [id |-> "c", title |-> "java", company |-> "acme", locations |-> <<LocBern, LocBasel>>]
JobD == [id |-> "a", title |-> "Java", company |-> "", locations |-> <<LocBasel, LocBasel>>]
JobE == [id |-> "e", title |-> "rust", company |-> "java", locations |-> <<LocZero, LocBern>>]

\* the record lists a loaded all_jobs.json is drawn from: the first records of
\* a catalogue.  JobA and JobD share an id, JobD has the same location twice, and "java"
\* ranks JobC (a title match) above JobB and JobE (company matches).
Catalogues == {<<JobB, JobC, JobA>>, <<JobA, JobD, JobC>>,
               <<JobE, JobC, JobB>>, <<JobC, JobA, JobB>>}

JobLists ==
  {SubSeq(c, 1, IF n < Len(c) THEN n ELSE Len(c)) : c \in Catalogues, n \in 1..MaxJobs}

(***************************************************************************)
(* transformJobsToTransformedJobs, lines 205-322.                          *)
(***************************************************************************)
\* lines 227-233, 259-265, 289-295: the first id not in usedIds
RECURSIVE UniqueId(_, _, _)
UniqueId(base, usedIds, counter) ==
  LET candidate == IF counter = 0 THEN base ELSE base \o "-" \o ToString(counter)
  IN IF candidate \in usedIds THEN UniqueId(base, usedIds, counter + 1) ELSE candidate

\* lines 252-255
IsValidLocation(loc) ==
  /\ Truthy(loc.latitude) /\ Truthy(loc.longitude)
  /\ ~IsNaN(loc.latitude) /\ ~IsNaN(loc.longitude)

ValidLocations(job) == SelectSeq(job.locations, IsValidLocation)

\* lines 235-247 and 267-279
\* a placeholder that copies title and company as they are
PlaceholderJobWithoutDefaults(job, uniqueId) ==
  [id |-> uniqueId, originalId |-> job.id, title |-> job.title, company |-> job.company,
   location |-> "Location not specified", latitude |-> Num(0), longitude |-> Num(0)]

PlaceholderJob(job, uniqueId) ==
  [id |-> uniqueId,
   originalId |-> job.id,
   title |-> IF job.title # "" THEN job.title ELSE "No Title",
   company |-> IF job.company # "" THEN job.company ELSE "Unknown Company",
   location |-> "Location not specified",
   latitude |-> Num(0),
   longitude |-> Num(0)]

\* lines 285-309
LocatedJob(job, location, uniqueId) ==
  LET city == IF location.city # "" THEN location.city ELSE "Location not specified"
      address == location.address
  IN [id |-> uniqueId,
      originalId |-> job.id,
      title |-> IF job.title # "" THEN job.title ELSE "No Title",
      company |-> IF job.company # "" THEN job.company ELSE "Unknown Company",
      location |-> IF address # "" THEN address \o ", " \o city ELSE city,
      latitude |-> location.latitude,
      longitude |-> location.longitude]

\* lines 284-310: the loop over validLocations from position index (0-based)
RECURSIVE ProcessLocations(_, _, _, _, _)
ProcessLocations(job, jobIndex, validLocations, index, acc) ==
  IF index >= Len(validLocations) THEN acc
  ELSE LET uniqueId == UniqueId(job.id \o "-" \o ToString(index) \o "-" \o ToString(jobIndex),
                                acc.usedIds, 0)
       IN ProcessLocations(job, jobIndex, validLocations, index + 1,
            [results |-> Append(acc.results, LocatedJob(job, validLocations[index + 1], uniqueId)),
             usedIds |-> acc.usedIds \cup {uniqueId}])

\* lines 222-310: one iteration of the loop over jobsToProcess
ProcessJob(job, jobIndex, acc) ==
  IF Len(job.locations) = 0
  THEN LET uniqueId == UniqueId(job.id \o "-no-location", acc.usedIds, 0)
       IN [results |-> Append(acc.results, PlaceholderJob(job, uniqueId)),
           usedIds |-> acc.usedIds \cup {uniqueId}]
  ELSE IF Len(ValidLocations(job)) = 0
  THEN LET uniqueId == UniqueId(job.id \o "-invalid-location", acc.usedIds, 0)
       IN [results |-> Append(acc.results, PlaceholderJob(job, uniqueId)),
           usedIds |-> acc.usedIds \cup {uniqueId}]
  ELSE ProcessLocations(job, jobIndex, ValidLocations(job), 0, acc)

\* lines 221-311: the loop from position jobIndex (0-based)
RECURSIVE ProcessJobs(_, _, _)
ProcessJobs(jobsToProcess, jobIndex, acc) ==
  IF jobIndex >= Len(jobsToProcess) THEN acc
  ELSE ProcessJobs(jobsToProcess, jobIndex + 1,
                   ProcessJob(jobsToProcess[jobIndex + 1], jobIndex, acc))

\* lines 314-316: keep the first DisplayJob of every id
FilterDuplicates(results) ==
  LET keep(i) == \A j \in 1..(i - 1) : results[j].id # results[i].id
      RECURSIVE Build(_)
      Build(i) == IF i > Len(results) THEN <<>>
                  ELSE (IF keep(i) THEN <<results[i]>> ELSE <<>>) \o Build(i + 1)
  IN Build(1)

\* TransformBatch as it would be with the ids `${job.id}-${index}` of the
\* relational variant (src/lib/database.ts:295), no usedIds set and no final filter
TransformBatchUncheckedIds(jobList, offset, limit) ==
  LET jobsToProcess == IF limit # 0 THEN Slice(jobList, offset, offset + limit)
                       ELSE SliceFrom(jobList, offset)
      expand(job) ==
        IF Len(job.locations) = 0
        THEN <<PlaceholderJob(job, job.id \o "-no-location")>>
        ELSE IF Len(ValidLocations(job)) = 0
        THEN <<PlaceholderJob(job, job.id \o "-invalid-location")>>
        ELSE [i \in 1..Len(ValidLocations(job)) |->
                LocatedJob(job, ValidLocations(job)[i], job.id \o "-" \o ToString(i - 1))]
      RECURSIVE Expand(_)
      Expand(jobIndex) ==
        IF jobIndex >= Len(jobsToProcess) THEN <<>>
        ELSE expand(jobsToProcess[jobIndex + 1]) \o Expand(jobIndex + 1)
  IN Expand(0)

\* lines 213-316: the transform of a batch when the transformation cache misses
TransformBatch(jobList, offset, limit) ==
  LET jobsToProcess == IF limit # 0 THEN Slice(jobList, offset, offset + limit)
                       ELSE SliceFrom(jobList, offset)
  IN FilterDuplicates(ProcessJobs(jobsToProcess, 0, [results |-> <<>>, usedIds |-> {}]).results)

\* lines 197-203
GetTransformationCacheKey(jobList, offset, limit) ==
  LET slice == IF limit # 0 THEN Slice(jobList, offset, offset + limit)
               ELSE SliceFrom(jobList, offset)
      jobIds == Join(SortStrings([i \in 1..Len(slice) |-> slice[i].id]), ",")
  IN jobIds \o "-" \o ToString(offset) \o "-" \o (IF limit # 0 THEN ToString(limit) ELSE "all")

\* lines 205-322: [results, cache], the returned DisplayJobs and the
\* transformation cache after the call, from the cache tc before it
TransformJobsToTransformedJobs(tc, jobList, offset, limit) ==
  LET cacheKey == GetTransformationCacheKey(jobList, offset, limit)
  IN IF cacheKey \in DOMAIN tc
     THEN [results |-> tc[cacheKey], cache |-> tc]
     ELSE LET finalResults == TransformBatch(jobList, offset, limit)
          IN [results |-> finalResults,
              cache |-> [k \in DOMAIN tc \cup {cacheKey} |->
                           IF k = cacheKey THEN finalResults ELSE tc[k]]]

(***************************************************************************)
(* The search index.  MiniSearch is a library: it is modelled by what the  *)
(* service relies on.  Documents and queries are tokenized on spaces and   *)
(* punctuation and lower-cased; a term matches a field when it is a prefix *)
(* of one of the field's tokens; every term must match (combineWith AND);  *)
(* hits are ranked by the summed boost of the matching fields, ties in     *)
(* document order.  The vocabulary of JobPool keeps distinct tokens more   *)
(* than the fuzzy edit distance apart.                                     *)
(***************************************************************************)
Separators == {" ", ",", "-", ":", "_"}

RECURSIVE TokenizeFrom(_, _)
TokenizeFrom(s, current) ==
  IF Len(s) = 0 THEN (IF current = "" THEN <<>> ELSE <<current>>)
  ELSE IF Char(s, 1) \in Separators
       THEN (IF current = "" THEN <<>> ELSE <<current>>)
            \o TokenizeFrom(SubSeq(s, 2, Len(s)), "")
       ELSE TokenizeFrom(SubSeq(s, 2, Len(s)), current \o Char(s, 1))

Tokenize(s) == TokenizeFrom(ToLowerCase(s), "")

\* line 95
LocationsField(job) ==
  Join([i \in 1..Len(job.locations) |->
          job.locations[i].city \o " " \o job.locations[i].address], " ")

\* lines 90-103: searchDocuments, and the terms addAll() indexes them under
SearchDocuments(jobList) ==
  [i \in 1..Len(jobList) |->
     [id |-> jobList[i].id \o "_" \o ToString(i - 1),
      title |-> Tokenize(jobList[i].title),
      company |-> Tokenize(jobList[i].company),
      locations |-> Tokenize(LocationsField(jobList[i]))]]

NoIndex == [built |-> FALSE, docs |-> <<>>]

\* an index that holds the first record only
InitializeMiniSearchFirstOnly(jobList) ==
  [built |-> TRUE, docs |-> SubSeq(SearchDocuments(jobList), 1, 1)]

\* lines 77-111
InitializeMiniSearch(jobList) == [built |-> TRUE, docs |-> SearchDocuments(jobList)]

FieldMatches(tokens, term) == \E i \in 1..Len(tokens) : StartsWith(tokens[i], term)

\* lines 82 and 383: boost title 3, company 2, locations 1
TermScore(doc, term) ==
    (IF FieldMatches(doc.title, term) THEN 3 ELSE 0)
  + (IF FieldMatches(doc.company, term) THEN 2 ELSE 0)
  + (IF FieldMatches(doc.locations, term) THEN 1 ELSE 0)

\* 0 when a term matches no field of the document (combineWith: 'AND')
RECURSIVE DocScore(_, _)
DocScore(doc, terms) ==
  IF Len(terms) = 0 THEN 0
  ELSE LET first == TermScore(doc, Head(terms))
           rest == DocScore(doc, Tail(terms))
       IN IF first = 0 \/ (Len(terms) > 1 /\ rest = 0) THEN 0 ELSE first + rest

\* lines 380-384: miniSearch.search(query, ...), the ids of the ranked hits
MiniSearchSearch(index, query) ==
  LET terms == Tokenize(query)
      scores == [i \in 1..Len(index.docs) |-> DocScore(index.docs[i], terms)]
      RECURSIVE Ranked(_)
      Ranked(score) ==
        IF score = 0 THEN <<>>
        ELSE LET RECURSIVE At(_)
                 At(i) == IF i > Len(index.docs) THEN <<>>
                          ELSE (IF scores[i] = score THEN <<index.docs[i].id>> ELSE <<>>)
                               \o At(i + 1)
             IN At(1) \o Ranked(score - 1)
  IN Ranked(6 * Len(terms))

\* lines 387-391: the hits resolved back to records; unresolved hits are dropped
RECURSIVE MatchedJobs(_, _)
MatchedJobs(jobList, hitIds) ==
  IF Len(hitIds) = 0 THEN <<>>
  ELSE LET originalId == SplitFirst(Head(hitIds), "_")
           found == {i \in 1..Len(jobList) : jobList[i].id = originalId}
           first == CHOOSE i \in found : \A j \in found : i <= j
       IN (IF found = {} THEN <<>> ELSE <<jobList[first]>>)
          \o MatchedJobs(jobList, Tail(hitIds))

\* lines 351-358 and 436-441
JobInLocation(job, locationName) ==
  \E i \in 1..Len(job.locations) :
     \/ Includes(ToLowerCase(job.locations[i].city), ToLowerCase(locationName))
     \/ Includes(ToLowerCase(job.locations[i].address), ToLowerCase(locationName))

FilterByLocation(jobList, locationName) ==
  LET inLocation(job) == JobInLocation(job, locationName)
  IN SelectSeq(jobList, inLocation)

(***************************************************************************)
(* The result cache, lines 48-75.  A location argument is a record         *)
(* [present, name]: an absent argument is not the empty string.            *)
(***************************************************************************)
CacheTTL == 10 * 60 * 1000

NoLocation == [present |-> FALSE, name |-> ""]
InLocation(name) == [present |-> TRUE, name |-> name]

\* lines 54-56
GetCacheKey(query, locationName) ==
  IF locationName.present /\ locationName.name # ""
  THEN query \o ":" \o locationName.name
  ELSE query

\* a read that returns an entry whatever its age and deletes nothing
GetCachedResultsOfAnyAge(sc, key, time) ==
  IF key \in DOMAIN sc
  THEN [found |-> TRUE, results |-> sc[key].results, cache |-> sc, evicted |-> FALSE]
  ELSE [found |-> FALSE, results |-> <<>>, cache |-> sc, evicted |-> FALSE]

\* lines 58-67: [found, results, cache, evicted]: whether an entry is returned,
\* its results, the cache after the read and whether the read deleted an entry
GetCachedResults(sc, key, time) ==
  IF key \in DOMAIN sc /\ time - sc[key].timestamp < CacheTTL
  THEN [found |-> TRUE, results |-> sc[key].results, cache |-> sc, evicted |-> FALSE]
  ELSE [found |-> FALSE, results |-> <<>>,
        cache |-> [k \in DOMAIN sc \ {key} |-> sc[k]],
        evicted |-> key \in DOMAIN sc]

\* lines 69-71
SetCachedResults(sc, key, results, time) ==
  [k \in DOMAIN sc \cup {key} |->
     IF k = key THEN [results |-> results, timestamp |-> time] ELSE sc[k]]

\* lines 370 and 410
Paginate(results, offset, limit) ==
  IF limit # 0 THEN Slice(results, offset, offset + limit) ELSE SliceFrom(results, offset)

(***************************************************************************)
(* The snapshot in localStorage, lines 163-195.  The two items are         *)
(* jobsData and jobsDataTimestamp.  The stored jobsData string is          *)
(* represented by the value JSON.parse gives back for it, or by            *)
(* parses = FALSE when JSON.parse throws on it; the stored timestamp by    *)
(* the number parseInt gives for it, or by numeric = FALSE when parseInt   *)
(* gives NaN.  access tells what the browser lets the page do with         *)
(* localStorage:                                                           *)
(*   "ok"      every call works                                            *)
(*   "denied"  getItem and setItem throw (storage blocked)                 *)
(*   "full"    setItem throws (quota exceeded), the other calls work       *)
(*   "once"    the first setItem of a write works, the second throws       *)
(***************************************************************************)
MaxAge == 24 * 60 * 60 * 1000

NoSnapshot ==
  [access |-> "ok", hasData |-> FALSE, parses |-> TRUE, jobsData |-> <<>>,
   hasTimestamp |-> FALSE, numeric |-> TRUE, jobsDataTimestamp |-> 0]

\* JSON.parse(JSON.stringify(c)): JSON has no Infinity, it is written as null
JsonCoordinate(c) == IF c.kind = "Infinity" THEN Null ELSE c

JsonLocation(loc) ==
  [loc EXCEPT !.latitude = JsonCoordinate(loc.latitude),
              !.longitude = JsonCoordinate(loc.longitude)]

JsonRoundTrip(jobList) ==
  [i \in 1..Len(jobList) |->
     LET locations == jobList[i].locations
     IN [jobList[i] EXCEPT
           !.locations = [k \in 1..Len(locations) |-> JsonLocation(locations[k])]]]

\* lines 164-181, the body of the try block: [threw, found, data, storage],
\* the storage after the read.  The age of a timestamp that is not a number
\* is NaN, and NaN > maxAge is false.
ReadSnapshot(st, time) ==
  IF st.access = "denied"
  THEN [threw |-> TRUE, found |-> FALSE, data |-> <<>>, storage |-> st]
  ELSE IF ~st.hasData \/ ~st.hasTimestamp
  THEN [threw |-> FALSE, found |-> FALSE, data |-> <<>>, storage |-> st]
  ELSE IF st.numeric /\ time - st.jobsDataTimestamp > MaxAge
  THEN [threw |-> FALSE, found |-> FALSE, data |-> <<>>,
        storage |-> [NoSnapshot EXCEPT !.access = st.access]]
  ELSE IF ~st.parses
  THEN [threw |-> TRUE, found |-> FALSE, data |-> <<>>, storage |-> st]
  ELSE [threw |-> FALSE, found |-> TRUE, data |-> st.jobsData, storage |-> st]

\* a read whose exception reaches the caller
GetCachedJobsDataUncaught(st, time) == ReadSnapshot(st, time)

\* lines 163-186: the catch block turns an exception into `return null`
GetCachedJobsData(st, time) ==
  LET read == ReadSnapshot(st, time)
  IN IF read.threw THEN [read EXCEPT !.threw = FALSE, !.found = FALSE] ELSE read

\* lines 190-191, the body of the try block: [threw, storage]
WriteSnapshot(st, jobList, time) ==
  LET withData == [st EXCEPT !.hasData = TRUE, !.parses = TRUE,
                             !.jobsData = JsonRoundTrip(jobList)]
      withBoth == [withData EXCEPT !.hasTimestamp = TRUE, !.numeric = TRUE,
                                   !.jobsDataTimestamp = time]
  IN CASE st.access = "ok" -> [threw |-> FALSE, storage |-> withBoth]
       [] st.access = "once" -> [threw |-> TRUE, storage |-> withData]
       [] OTHER -> [threw |-> TRUE, storage |-> st]

\* lines 188-195: the catch block swallows the exception
CacheJobsData(st, jobList, time) ==
  [WriteSnapshot(st, jobList, time) EXCEPT !.threw = FALSE]

(***************************************************************************)
(* State.                                                                  *)
(*   jobs, initialized, miniSearch, searchCache, transformationCache,      *)
(*   dataLoadPromise:                                                      *)
(*     the fields of OptimizedJobsDataService, lines 45-52;                *)
(*     dataLoadPromise is 0 (null) or the number of a promise in loads     *)
(*   loads:     the promises performDataLoad() has returned, each          *)
(*              "pending", "resolved" or "rejected"                        *)
(*   storage:   the snapshot in localStorage                               *)
(*   server:    the records /all_jobs.json holds                           *)
(*   waiting:   the calls suspended in `await this.init()` or, for init()  *)
(*              itself, in `await this.loadJobsData()`, in call order      *)
(*   hook:      the state, the props and the pending render of one         *)
(*              useOptimizedJobs()                                         *)
(*   now:       Date.now()                                                 *)
(*   client:    the arguments the service is called with in this run       *)
(*   searchBar: the state of one SearchBar component                       *)
(*   last:      the last call of a service method that has settled, its    *)
(*              arguments and what it returned (an observation of the      *)
(*              model, not a field)                                        *)
(*   sinceClose: the performDataLoad() and fetch() calls made since the    *)
(*              service was constructed or closed (an observation)         *)
(*   stepsLeft: the number of calls the run may still make                 *)
(***************************************************************************)
VARIABLES jobs, initialized, miniSearch, searchCache, transformationCache,
          dataLoadPromise, loads, storage, server, waiting, hook,
          now, client, last, sinceClose, stepsLeft, searchBar

svcVars == <<jobs, initialized, miniSearch, searchCache, transformationCache>>
loadVars == <<dataLoadPromise, loads, storage, sinceClose>>
vars == <<jobs, initialized, miniSearch, searchCache, transformationCache,
          dataLoadPromise, loads, storage, server, waiting, hook,
          now, client, last, sinceClose, stepsLeft, searchBar>>

EmptyCache == [k \in {} |-> <<>>]

\* src/components/search-bar.tsx lines 13-16: query is the text of the input,
\* debounceTimeout the timer of debounceTimeoutRef and the text it will
\* deliver, onSearch the last call of the onSearch prop (an observation)
NewSearchBar ==
  [query |-> "",
   debounceTimeout |-> [pending |-> FALSE, value |-> ""],
   onSearch |-> [called |-> FALSE, query |-> ""]]

\* a clearCache() that leaves the entries in place
ClearCacheKeepsEntries(sc) == sc

\* lines 73-75
ClearCache(sc) == EmptyCache

NoCall == [op |-> "none", query |-> "", location |-> NoLocation, limit |-> 0,
           offset |-> 0, key |-> "", keyQuery |-> "", read |-> FALSE, hit |-> FALSE,
           evicted |-> FALSE, searched |-> FALSE, wrote |-> FALSE,
           jobs |-> <<>>, total |-> 0, rejected |-> FALSE]

(***************************************************************************)
(* The query methods, once initialized is true.  Each operator gives the   *)
(* call's return value (jobs, total), the two caches after the call        *)
(* (sc, tc) from the caches sc, tc before it, and what the call did:       *)
(*   read      it called getCachedResults(key), key = getCacheKey(keyQuery, *)
(*             location)                                                   *)
(*   hit       it returned from the result cache                           *)
(*   evicted   getCachedResults deleted an expired entry, or close()       *)
(*             dropped the entries of the result cache                     *)
(*   searched  it called miniSearch.search                                 *)
(*   wrote     it called setCachedResults                                  *)
(* time is Date.now() during the call.                                     *)
(***************************************************************************)
\* lines 341-345
GetAllJobsOp(sc, tc, limit, offset) ==
  LET t == TransformJobsToTransformedJobs(tc, jobs, offset, limit)
  IN [jobs |-> t.results, total |-> Len(jobs), sc |-> sc, tc |-> t.cache,
      key |-> "", keyQuery |-> "", read |-> FALSE, hit |-> FALSE, evicted |-> FALSE,
      searched |-> FALSE, wrote |-> FALSE]

\* lines 347-361
GetJobsByLocationOp(sc, tc, locationName, limit, offset) ==
  LET filteredJobs == FilterByLocation(jobs, locationName)
      t == TransformJobsToTransformedJobs(tc, filteredJobs, offset, limit)
  IN [jobs |-> t.results, total |-> Len(jobs), sc |-> sc, tc |-> t.cache,
      key |-> "", keyQuery |-> "", read |-> FALSE, hit |-> FALSE, evicted |-> FALSE,
      searched |-> FALSE, wrote |-> FALSE]

\* lines 386-391 and 428-441: the records a search keeps
Survivors(indexQuery, location) ==
  LET matchedJobs == MatchedJobs(jobs, MiniSearchSearch(miniSearch, indexQuery))
  IN IF location.present THEN FilterByLocation(matchedJobs, location.name)
     ELSE matchedJobs

\* lines 374-400, 414-450 and 493-520: the result cache gave nothing
ComputeSearch(cached, tc, time, cacheKey, indexQuery, location, limit, offset) ==
  IF ~miniSearch.built
  THEN [jobs |-> <<>>, total |-> 0, sc |-> cached.cache, tc |-> tc,
        key |-> cacheKey, keyQuery |-> indexQuery, read |-> TRUE, hit |-> FALSE,
        evicted |-> cached.evicted, searched |-> FALSE, wrote |-> FALSE]
  ELSE LET survivors == Survivors(indexQuery, location)
           t == TransformJobsToTransformedJobs(tc, survivors, offset, limit)
       IN [jobs |-> t.results, total |-> Len(survivors),
           sc |-> IF limit = 0
                  THEN SetCachedResults(cached.cache, cacheKey, t.results, time)
                  ELSE cached.cache,
           tc |-> t.cache,
           key |-> cacheKey, keyQuery |-> indexQuery, read |-> TRUE, hit |-> FALSE,
           evicted |-> cached.evicted, searched |-> TRUE, wrote |-> (limit = 0)]

\* lines 369-372 and 409-412: served from the result cache
ServeCached(cached, tc, cacheKey, keyQuery, limit, offset) ==
  [jobs |-> Paginate(cached.results, offset, limit), total |-> Len(cached.results),
   sc |-> cached.cache, tc |-> tc,
   key |-> cacheKey, keyQuery |-> keyQuery, read |-> TRUE, hit |-> TRUE,
   evicted |-> FALSE, searched |-> FALSE, wrote |-> FALSE]

\* lines 363-401
SearchJobsOp(sc, tc, time, query, limit, offset) ==
  LET cacheKey == GetCacheKey(query, NoLocation)
      cached == GetCachedResults(sc, cacheKey, time)
  IN IF cached.found
     THEN ServeCached(cached, tc, cacheKey, query, limit, offset)
     ELSE ComputeSearch(cached, tc, time, cacheKey, query, NoLocation, limit, offset)

\* lines 403-451
SearchJobsByLocationOp(sc, tc, time, query, locationName, limit, offset) ==
  LET cacheKey == GetCacheKey(query, InLocation(locationName))
      cached == GetCachedResults(sc, cacheKey, time)
  IN IF cached.found
     THEN ServeCached(cached, tc, cacheKey, query, limit, offset)
     ELSE ComputeSearch(cached, tc, time, cacheKey, query, InLocation(locationName),
                        limit, offset)

\* lines 473-521
SearchJobsOptimizedOp(sc, tc, time, query, limit, offset) ==
  LET normalizedQuery == ToLowerCase(Trim(query))
      cacheKey == GetCacheKey(normalizedQuery, NoLocation)
      cached == GetCachedResults(sc, cacheKey, time)
  IN IF normalizedQuery = ""
     THEN GetAllJobsOp(sc, tc, limit, offset)
     ELSE IF cached.found /\ limit = 0
     THEN [ServeCached(cached, tc, cacheKey, normalizedQuery, limit, offset)
             EXCEPT !.jobs = Slice(cached.results, offset, offset + Len(cached.results))]
     ELSE ComputeSearch(cached, tc, time, cacheKey, normalizedQuery, NoLocation,
                        limit, offset)

(***************************************************************************)
(* Loading, lines 116-161 and 324-339.  An async method runs to its first  *)
(* await inside the call; what follows the await runs when the awaited     *)
(* promise has settled, the continuations of one promise in the order the  *)
(* calls were made, and before anything else happens.                      *)
(***************************************************************************)
\* a loadJobsData() that starts a load of its own on every call
NeverSharesLoad(promise) == FALSE

\* line 117
SharesLoad(promise) == promise # 0

\* a load that fetches whatever the snapshot holds
PerformDataLoadAlwaysFetches(st, time) ==
  [status |-> "pending", loaded |-> FALSE, jobs |-> <<>>, storage |-> st, fetched |-> TRUE]

\* lines 125-138 and 157-160: performDataLoad() up to its first await; what
\* is thrown inside the try block rejects the promise
PerformDataLoad(st, time) ==
  LET cachedData == GetCachedJobsData(st, time)
  IN CASE cachedData.threw ->
            [status |-> "rejected", loaded |-> FALSE, jobs |-> <<>>,
             storage |-> cachedData.storage, fetched |-> FALSE]
       [] ~cachedData.threw /\ cachedData.found ->
            [status |-> "resolved", loaded |-> TRUE, jobs |-> cachedData.data,
             storage |-> cachedData.storage, fetched |-> FALSE]
       [] OTHER ->
            [status |-> "pending", loaded |-> FALSE, jobs |-> <<>>,
             storage |-> cachedData.storage, fetched |-> TRUE]

\* lines 116-123: loadJobsData() up to its await
LoadJobsData ==
  IF SharesLoad(dataLoadPromise)
  THEN UNCHANGED <<dataLoadPromise, loads, jobs, storage, sinceClose>>
  ELSE LET load == PerformDataLoad(storage, now)
       IN /\ loads' = Append(loads, load.status)
          /\ dataLoadPromise' = Len(loads) + 1
          /\ jobs' = IF load.loaded THEN load.jobs ELSE jobs
          /\ storage' = load.storage
          /\ sinceClose' = [loads |-> sinceClose.loads + 1,
                            fetches |-> sinceClose.fetches + (IF load.fetched THEN 1 ELSE 0)]

\* a call: who made it and what it asks of the service
Call(caller, kind, seq, op, query, location, limit, offset) ==
  [caller |-> caller, kind |-> kind, seq |-> seq, op |-> op, query |-> query,
   location |-> location, limit |-> limit, offset |-> offset]

\* lines 324-329 (and 342, 348, 364, 404, 474): the call suspends in init()
AwaitInit(call) ==
  /\ LoadJobsData
  /\ waiting' = Append(waiting, [load |-> dataLoadPromise', stage |-> "init", call |-> call])
  /\ UNCHANGED <<initialized, miniSearch, searchCache, transformationCache>>

\* the body of a query method after `if (!this.initialized) await this.init()`
Perform(op, sc, tc, time, query, location, limit, offset) ==
  CASE op = "getAllJobs" -> GetAllJobsOp(sc, tc, limit, offset)
    [] op = "getJobsByLocation" ->
         GetJobsByLocationOp(sc, tc, location.name, limit, offset)
    [] op = "searchJobs" -> SearchJobsOp(sc, tc, time, query, limit, offset)
    [] op = "searchJobsByLocation" ->
         SearchJobsByLocationOp(sc, tc, time, query, location.name, limit, offset)
    [] op = "searchJobsOptimized" ->
         SearchJobsOptimizedOp(sc, tc, time, query, limit, offset)

PerformCall(call) ==
  Perform(call.op, searchCache, transformationCache, now, call.query, call.location,
          call.limit, call.offset)

\* a query method has returned r
Called(call, r) ==
  /\ searchCache' = r.sc
  /\ transformationCache' = r.tc
  /\ last' = [op |-> call.op, query |-> call.query, location |-> call.location,
              limit |-> call.limit, offset |-> call.offset, key |-> r.key,
              keyQuery |-> r.keyQuery, read |-> r.read, hit |-> r.hit,
              evicted |-> r.evicted, searched |-> r.searched, wrote |-> r.wrote,
              jobs |-> r.jobs, total |-> r.total, rejected |-> FALSE]

Settled(call, rejected) == [NoCall EXCEPT !.op = call.op, !.rejected = rejected]

Runnable(stage) ==
  {i \in 1..Len(waiting) : waiting[i].stage = stage /\ loads[waiting[i].load] # "pending"}

First(S) == CHOOSE i \in S : \A j \in S : i <= j

Remove(seq, i) == SubSeq(seq, 1, i - 1) \o SubSeq(seq, i + 1, Len(seq))

\* no continuation is due and the hook has rendered
Quiet == Runnable("init") = {} /\ Runnable("op") = {} /\ ~hook.dirty

(***************************************************************************)
(* useOptimizedJobs, src/unnamed/part_009 lines 21-198.  The props are     *)
(* kept with the state: selectedLocation is a location argument (absent    *)
(* when the prop is null), searchQuery is "" when the prop is undefined.   *)
(* requests counts the loads and searches the hook has started, shown is   *)
(* the number of the one whose result is displayed, active is its call and *)
(* appended the number of loadMore() pages added to it (observations).     *)
(***************************************************************************)
NoActive == [caller |-> "hook", kind |-> "none", seq |-> 0, op |-> "none", query |-> "",
             location |-> NoLocation, limit |-> 0, offset |-> 0]

\* lines 22-28
Unmounted ==
  [mounted |-> FALSE, jobs |-> <<>>, loading |-> TRUE, error |-> "",
   initialized |-> FALSE, hasMore |-> TRUE, totalJobs |-> 0, currentOffset |-> 0,
   selectedLocation |-> NoLocation, searchQuery |-> "",
   dirty |-> FALSE, requests |-> 0, shown |-> 0, active |-> NoActive, appended |-> 0]

\* lines 41 and 47: setInitialized(true) asks for a render
HookInitialized(h) == [h EXCEPT !.initialized = TRUE, !.loading = FALSE, !.dirty = TRUE]

\* lines 43-47, 106-110, 159-163, 179-183
HookFailed(h) == [h EXCEPT !.error = "An error occurred", !.loading = FALSE]

\* lines 67-100 and 126-154: the service call for the props
LoadJobsCall(kind, seq, searchQuery, selectedLocation, offset) ==
  IF Trim(searchQuery) # ""
  THEN (IF selectedLocation.present
        THEN Call("hook", kind, seq, "searchJobsByLocation", searchQuery, selectedLocation,
                  ChunkSize, offset)
        ELSE Call("hook", kind, seq, "searchJobs", searchQuery, NoLocation, ChunkSize, offset))
  ELSE IF selectedLocation.present
  THEN Call("hook", kind, seq, "getJobsByLocation", "", selectedLocation, ChunkSize, offset)
  ELSE Call("hook", kind, seq, "getAllJobs", "", NoLocation, ChunkSize, offset)

\* lines 102-105, 156-158, 175-178 and the finally blocks: the awaited call
\* has returned r; jobCount is getJobCount() at that moment
HookReceives(h, call, r, jobCount) ==
  IF call.kind = "more"
  THEN [h EXCEPT !.jobs = h.jobs \o r.jobs,
                 !.currentOffset = h.currentOffset + ChunkSize,
                 !.hasMore = (Len(r.jobs) = ChunkSize),
                 !.loading = FALSE,
                 !.appended = h.appended + 1]
  ELSE [h EXCEPT !.jobs = r.jobs,
                 !.currentOffset = ChunkSize,
                 !.totalJobs = IF call.op \in {"searchJobs", "searchJobsByLocation"}
                               THEN r.total ELSE jobCount,
                 !.hasMore = (Len(r.jobs) = ChunkSize),
                 !.loading = FALSE,
                 !.shown = call.seq,
                 !.active = call,
                 !.appended = 0]

\* lines 60-62, 120-122, 169-171, then the awaited service call: h is the
\* hook as the caller's render saw it
HookCalls(h, call) ==
  LET started == [h EXCEPT !.loading = TRUE, !.error = "",
                           !.currentOffset = IF call.kind = "more" THEN h.currentOffset ELSE 0,
                           !.requests = call.seq]
  IN IF initialized
     THEN /\ Called(call, PerformCall(call))
          /\ hook' = HookReceives(started, call, PerformCall(call), Len(jobs))
          /\ UNCHANGED <<jobs, initialized, miniSearch, loadVars, waiting>>
     ELSE /\ AwaitInit(call)
          /\ hook' = started
          /\ UNCHANGED last

(***************************************************************************)
(* The arguments the calls are made with: client.queries,                  *)
(* client.locations and client.pages, a set of <<limit, offset>> pairs.    *)
(***************************************************************************)
Queries == {"java", "Java "}
LocationNames == {"bern"}
Pages == {<<0, 0>>, <<0, 1>>, <<1, 0>>, <<1, 1>>}

\* a query method is called on the service
Request(op, query, location, page) ==
  LET call == Call("service", "call", 0, op, query, location, page[1], page[2])
  IN /\ stepsLeft' = stepsLeft - 1
     /\ IF initialized
        THEN /\ Called(call, PerformCall(call))
             /\ UNCHANGED <<jobs, initialized, miniSearch, loadVars, waiting>>
        ELSE /\ AwaitInit(call)
             /\ UNCHANGED last
     /\ UNCHANGED <<server, hook, now, client, searchBar>>

GetAllJobs ==
  /\ stepsLeft > 0 /\ Quiet
  /\ \E page \in client.pages : Request("getAllJobs", "", NoLocation, page)

GetJobsByLocation ==
  /\ stepsLeft > 0 /\ Quiet
  /\ \E name \in client.locations, page \in client.pages :
       Request("getJobsByLocation", "", InLocation(name), page)

SearchJobs ==
  /\ stepsLeft > 0 /\ Quiet
  /\ \E query \in client.queries, page \in client.pages :
       Request("searchJobs", query, NoLocation, page)

SearchJobsByLocation ==
  /\ stepsLeft > 0 /\ Quiet
  /\ \E query \in client.queries, name \in client.locations, page \in client.pages :
       Request("searchJobsByLocation", query, InLocation(name), page)

SearchJobsOptimized ==
  /\ stepsLeft > 0 /\ Quiet
  /\ \E query \in client.queries, page \in client.pages :
       Request("searchJobsOptimized", query, NoLocation, page)

\* time passes: just short of the time-to-live, or all of it
Tick ==
  /\ stepsLeft > 0 /\ Quiet
  /\ \E d \in {CacheTTL - 1, CacheTTL} : now' = now + d
  /\ stepsLeft' = stepsLeft - 1
  /\ UNCHANGED <<svcVars, loadVars, server, waiting, hook, client, searchBar, last>>

\* lines 324-339: init() is called on the service
InitCall ==
  /\ stepsLeft > 0 /\ Quiet
  /\ stepsLeft' = stepsLeft - 1
  /\ IF initialized
     THEN /\ last' = [NoCall EXCEPT !.op = "init"]
          /\ UNCHANGED <<svcVars, loadVars, waiting>>
     ELSE /\ AwaitInit(Call("service", "init", 0, "init", "", NoLocation, 0, 0))
          /\ UNCHANGED last
  /\ UNCHANGED <<server, hook, now, client, searchBar>>

\* lines 138-150 and 157-160: the fetch of a load settles, with the records
\* or with a failure
FetchSettles ==
  /\ Quiet
  /\ \E l \in 1..Len(loads), ok \in BOOLEAN :
       /\ loads[l] = "pending"
       /\ IF ok
          THEN LET write == CacheJobsData(storage, server, now)
               IN /\ jobs' = server
                  /\ storage' = write.storage
                  /\ loads' = [loads EXCEPT
                                 ![l] = IF write.threw THEN "rejected" ELSE "resolved"]
          ELSE /\ loads' = [loads EXCEPT ![l] = "rejected"]
               /\ UNCHANGED <<jobs, storage>>
  /\ UNCHANGED <<initialized, miniSearch, searchCache, transformationCache,
                 dataLoadPromise, sinceClose, server, waiting, hook, now, client, searchBar, last,
                 stepsLeft>>

\* lines 328-338: init() continues after `await this.loadJobsData()`
InitContinues ==
  /\ Runnable("init") # {}
  /\ LET i == First(Runnable("init"))
         call == waiting[i].call
         resolved == loads[waiting[i].load] = "resolved"
     IN /\ IF resolved
           THEN /\ miniSearch' = IF Len(jobs) > 0 THEN InitializeMiniSearch(jobs)
                                 ELSE miniSearch
                /\ initialized' = TRUE
           ELSE UNCHANGED <<miniSearch, initialized>>
        /\ waiting' = IF resolved /\ call.op # "init"
                      THEN [waiting EXCEPT ![i].stage = "op"]
                      ELSE Remove(waiting, i)
        /\ IF call.caller = "hook"
           THEN /\ hook' = IF ~resolved THEN HookFailed(hook)
                           ELSE IF call.op = "init" THEN HookInitialized(hook)
                           ELSE hook
                /\ UNCHANGED last
           ELSE /\ last' = IF resolved /\ call.op # "init" THEN last
                           ELSE Settled(call, ~resolved)
                /\ UNCHANGED hook
  /\ UNCHANGED <<jobs, searchCache, transformationCache, loadVars, server, now, client, searchBar,
                 stepsLeft>>

\* a query method continues after `await this.init()`, and its caller after it
OpContinues ==
  /\ Runnable("init") = {} /\ Runnable("op") # {}
  /\ LET i == First(Runnable("op"))
         call == waiting[i].call
     IN /\ Called(call, PerformCall(call))
        /\ hook' = IF call.caller = "hook"
                   THEN HookReceives(hook, call, PerformCall(call), Len(jobs))
                   ELSE hook
        /\ waiting' = Remove(waiting, i)
  /\ UNCHANGED <<jobs, initialized, miniSearch, loadVars, server, now,
                 client, searchBar, stepsLeft>>

\* lines 457-463
Close ==
  /\ stepsLeft > 0 /\ Quiet
  /\ stepsLeft' = stepsLeft - 1
  /\ searchCache' = ClearCache(searchCache)
  /\ transformationCache' = EmptyCache
  /\ miniSearch' = NoIndex
  /\ initialized' = FALSE
  /\ dataLoadPromise' = 0
  /\ sinceClose' = [loads |-> 0, fetches |-> 0]
  /\ last' = [NoCall EXCEPT !.op = "close", !.evicted = (searchCache # EmptyCache)]
  /\ UNCHANGED <<jobs, loads, storage, server, waiting, hook, now, client, searchBar>>

\* part_009 lines 21-52: the component mounts and the first effect calls init()
Mount ==
  /\ ~hook.mounted /\ Quiet
  /\ \E searchQuery \in client.queries \cup {""},
        selectedLocation \in {InLocation(name) : name \in client.locations} \cup {NoLocation} :
       LET mounted == [Unmounted EXCEPT !.mounted = TRUE, !.searchQuery = searchQuery,
                                        !.selectedLocation = selectedLocation]
       IN IF initialized
          THEN /\ hook' = HookInitialized(mounted)
               /\ UNCHANGED <<svcVars, loadVars, waiting>>
          ELSE /\ AwaitInit(Call("hook", "init", 0, "init", "", NoLocation, 0, 0))
               /\ hook' = mounted
  /\ UNCHANGED <<server, now, client, searchBar, last, stepsLeft>>

\* part_009 lines 33-115: the render after setInitialized(true) runs both
\* effects; the second loads the first page for the props
RunEffect ==
  /\ hook.dirty /\ Runnable("init") = {} /\ Runnable("op") = {}
  /\ HookCalls([hook EXCEPT !.dirty = FALSE],
               LoadJobsCall("load", hook.requests + 1, hook.searchQuery,
                            hook.selectedLocation, 0))
  /\ UNCHANGED <<server, now, client, searchBar, stepsLeft>>

\* part_009 lines 55-115: the props change; the effect runs once the hook is
\* initialized
SetProps ==
  /\ hook.mounted /\ stepsLeft > 0 /\ Quiet
  /\ stepsLeft' = stepsLeft - 1
  /\ \E searchQuery \in client.queries \cup {""},
        selectedLocation \in {InLocation(name) : name \in client.locations} \cup {NoLocation} :
       /\ <<searchQuery, selectedLocation>> # <<hook.searchQuery, hook.selectedLocation>>
       /\ LET props == [hook EXCEPT !.searchQuery = searchQuery,
                                    !.selectedLocation = selectedLocation]
          IN IF hook.initialized
             THEN HookCalls(props, LoadJobsCall("load", hook.requests + 1, searchQuery,
                                                selectedLocation, 0))
             ELSE /\ hook' = props
                  /\ UNCHANGED <<svcVars, loadVars, waiting, last>>
  /\ UNCHANGED <<server, now, client, searchBar>>

\* part_009 lines 167-185: the searchJobs function the hook returns
HookSearch ==
  /\ hook.mounted /\ stepsLeft > 0 /\ Quiet
  /\ stepsLeft' = stepsLeft - 1
  /\ \E query \in client.queries :
       HookCalls(hook, Call("hook", "search", hook.requests + 1, "searchJobs", query,
                            NoLocation, ChunkSize, 0))
  /\ UNCHANGED <<server, now, client, searchBar>>

\* part_009 lines 117-165
LoadMore ==
  /\ hook.mounted /\ stepsLeft > 0 /\ Quiet
  /\ hook.initialized /\ ~hook.loading /\ hook.hasMore
  /\ stepsLeft' = stepsLeft - 1
  /\ HookCalls(hook, LoadJobsCall("more", hook.requests, hook.searchQuery,
                                  hook.selectedLocation, hook.currentOffset))
  /\ UNCHANGED <<server, now, client, searchBar>>

\* the service after init() has fetched a record list and built the index
LoadedFrom(jobLists) ==
  /\ jobs \in jobLists
  /\ initialized = TRUE
  /\ miniSearch = InitializeMiniSearch(jobs)
  /\ searchCache = EmptyCache
  /\ transformationCache = EmptyCache
  /\ dataLoadPromise = 1
  /\ loads = <<"resolved">>
  /\ storage = CacheJobsData(NoSnapshot, jobs, 0).storage
  /\ server = jobs
  /\ waiting = <<>>
  /\ hook = Unmounted
  /\ sinceClose = [loads |-> 1, fetches |-> 1]
  /\ now = 0
  /\ last = NoCall
  /\ searchBar = NewSearchBar

Loaded == LoadedFrom(JobLists)

Init ==
  /\ Loaded
  /\ client = [queries |-> Queries, locations |-> LocationNames, pages |-> Pages]
  /\ stepsLeft = MaxSteps

Next ==
  \/ GetAllJobs
  \/ GetJobsByLocation
  \/ SearchJobs
  \/ SearchJobsByLocation
  \/ SearchJobsOptimized
  \/ Tick

Spec == Init /\ [][Next]_vars

(***************************************************************************)
(* Properties of the query methods.                                        *)
(***************************************************************************)
DistinctIds(displayJobs) ==
  \A i, j \in 1..Len(displayJobs) : i # j => displayJobs[i].id # displayJobs[j].id

IdsOf(displayJobs) == {displayJobs[i].id : i \in 1..Len(displayJobs)}

\* the records the last call's result is derived from, before pagination
LastSurvivors ==
  CASE last.op = "getAllJobs" -> jobs
    [] last.op = "getJobsByLocation" -> FilterByLocation(jobs, last.location.name)
    [] last.op = "searchJobs" -> Survivors(last.query, NoLocation)
    [] last.op = "searchJobsByLocation" -> Survivors(last.query, last.location)
    [] last.op = "searchJobsOptimized" ->
         IF ToLowerCase(Trim(last.query)) = "" THEN jobs
         ELSE Survivors(ToLowerCase(Trim(last.query)), NoLocation)
    [] OTHER -> <<>>

\* C1: the DisplayJobs a query method returns have pairwise distinct ids,
\* whatever batch it transformed and whichever cache served it.
C1_UniqueIds == DistinctIds(last.jobs)

\* the disambiguation counter was used: two hits resolved to the record "a"
C1_Witness ==
  /\ last.op = "searchJobs"
  /\ \E i, j \in 1..Len(last.jobs) :
       /\ last.jobs[i].id = "a-no-location"
       /\ last.jobs[j].id = "a-no-location-1"

\* a location is valid when both coordinates are present, finite numbers
IsValidBySpec(loc) == loc.latitude.kind = "number" /\ loc.longitude.kind = "number"

ExpectedDisplayJobs(job) ==
  LET n == Len(SelectSeq(job.locations, IsValidBySpec)) IN IF n > 1 THEN n ELSE 1

RECURSIVE ExpectedFor(_, _, _)
ExpectedFor(jobList, id, i) ==
  IF i > Len(jobList) THEN 0
  ELSE (IF jobList[i].id = id THEN ExpectedDisplayJobs(jobList[i]) ELSE 0)
       + ExpectedFor(jobList, id, i + 1)

\* C2: getAllJobs() with no limit returns, for every record, max(1, number of
\* valid locations) DisplayJobs with its id as originalId, and one placeholder
\* DisplayJob for every record without a valid location.
C2_Coverage ==
  (last.op = "getAllJobs" /\ last.limit = 0 /\ last.offset = 0) =>
    /\ \A r \in 1..Len(jobs) :
         Cardinality({i \in 1..Len(last.jobs) : last.jobs[i].originalId = jobs[r].id})
           = ExpectedFor(jobs, jobs[r].id, 1)
    /\ \A r \in 1..Len(jobs) :
         SelectSeq(jobs[r].locations, IsValidBySpec) = <<>> =>
           \E i \in 1..Len(last.jobs) :
              /\ last.jobs[i].originalId = jobs[r].id
              /\ last.jobs[i].location = "Location not specified"
              /\ last.jobs[i].latitude = Num(0)
              /\ last.jobs[i].longitude = Num(0)

\* the call of the last step, made again for another page from the state it left
Again(sc, tc, limit, offset) ==
  CASE last.op = "getAllJobs" -> GetAllJobsOp(sc, tc, limit, offset)
    [] last.op = "getJobsByLocation" ->
         GetJobsByLocationOp(sc, tc, last.location.name, limit, offset)
    [] last.op = "searchJobs" -> SearchJobsOp(sc, tc, now, last.query, limit, offset)

\* C3: a first page of size L, the page after it and the page of size 2L at
\* offset 0 of the same query: the two pages share no id and their
\* concatenation is the double page.
C3_PaginationConsistent ==
  (/\ last.op \in {"getAllJobs", "getJobsByLocation", "searchJobs"}
   /\ last.limit > 0 /\ last.offset = 0) =>
    LET second == Again(searchCache, transformationCache, last.limit, last.limit)
        double == Again(second.sc, second.tc, 2 * last.limit, 0)
    IN /\ IdsOf(last.jobs) \cap IdsOf(second.jobs) = {}
       /\ last.jobs \o second.jobs = double.jobs

\* C4: a page of limit L > 0 is the DisplayJobs at positions offset ..
\* offset+L-1 of the expanded result, so it never holds more than L of them.
C4_PageOfExpanded ==
  (/\ last.op \in {"getAllJobs", "getJobsByLocation", "searchJobs", "searchJobsByLocation"}
   /\ last.limit > 0) =>
    /\ Len(last.jobs) <= last.limit
    /\ last.jobs = Paginate(TransformBatch(LastSurvivors, 0, 0), last.offset, last.limit)

\* C5: what a search writes into the result cache is the full result of the
\* key's query, the result for offset 0 and no limit.
C5_CacheHoldsFullResult ==
  last.wrote =>
    /\ last.key \in DOMAIN searchCache
    /\ searchCache[last.key].results = TransformBatch(LastSurvivors, 0, 0)

IsCallStep == stepsLeft' = stepsLeft - 1 /\ now' = now

\* C6: a search with a page size, directly after a search for a query that
\* differs only by case or surrounding whitespace, uses the same cache key
\* and does not query the index again.
C6_NormalizedQueriesShareEntry ==
  [][(/\ IsCallStep
      /\ last.op \in {"searchJobs", "searchJobsOptimized"} /\ last'.op = last.op
      /\ last.limit > 0 /\ last.offset = 0
      /\ last'.limit = last.limit /\ last'.offset = 0
      /\ last'.query # last.query
      /\ ToLowerCase(Trim(last'.query)) = ToLowerCase(Trim(last.query)))
     => (last'.key = last.key /\ last'.hit /\ ~last'.searched)]_vars

(***************************************************************************)
(* Expiry of result cache entries: longer runs with fewer arguments.       *)
(***************************************************************************)
InitExpiry ==
  /\ Loaded
  /\ client = [queries |-> {"java"}, locations |-> LocationNames,
               pages |-> {<<0, 0>>, <<1, 0>>}]
  /\ stepsLeft = MaxSteps + 1

SpecExpiry == InitExpiry /\ [][Next]_vars

\* C7: a search that reads a result cache entry younger than the time-to-live
\* leaves the entry as it is and (searchJobs, searchJobsByLocation, and
\* searchJobsOptimized without a limit) returns its page of the entry without
\* querying the index; a search that reads an older entry queries the index,
\* and the old entry is gone: the key is absent or holds what was just
\* computed.
C7_Expiry ==
  [][(IsCallStep /\ last'.read /\ last'.key \in DOMAIN searchCache) =>
       LET entry == searchCache[last'.key]
       IN IF now - entry.timestamp < CacheTTL
          THEN /\ last'.key \in DOMAIN searchCache'
               /\ searchCache'[last'.key] = entry
               /\ ~last'.evicted
               /\ (last'.op # "searchJobsOptimized" \/ last'.limit = 0) =>
                    /\ last'.hit /\ ~last'.searched
                    /\ last'.jobs = Paginate(entry.results, last'.offset, last'.limit)
                    /\ last'.total = Len(entry.results)
          ELSE /\ last'.evicted /\ ~last'.hit /\ last'.searched
               /\ \/ last'.key \notin DOMAIN searchCache'
                  \/ /\ last'.wrote
                     /\ searchCache'[last'.key].timestamp = now
                     /\ searchCache'[last'.key].results = last'.jobs]_vars

\* an entry was read exactly when its time-to-live had elapsed and was evicted
C7_Witness ==
  /\ last.evicted /\ last.searched
  /\ now = CacheTTL
  /\ last.key \notin DOMAIN searchCache

(***************************************************************************)
(* Cache keys: queries with a colon and the empty location name.           *)
(***************************************************************************)
InitKeys ==
  /\ Loaded
  /\ client = [queries |-> {"java", "java:bern"}, locations |-> {"bern", ""},
               pages |-> {<<0, 0>>}]
  /\ stepsLeft = MaxSteps

SpecKeys == InitKeys /\ [][Next]_vars

\* C8: two searches that use the same cache key were given the same
\* (query, locationName-or-absent) pair.
C8_KeyInjective ==
  [][(IsCallStep /\ last.read /\ last'.read /\ last'.key = last.key)
     => (last'.keyQuery = last.keyQuery /\ last'.location = last.location)]_vars

(***************************************************************************)
(* The life of the service: it is constructed, init() and query methods    *)
(* are called on it before and after the load has settled, and it is       *)
(* closed.  The snapshot of an earlier visit is absent, just young enough  *)
(* or too old.                                                             *)
(***************************************************************************)
\* the snapshot an earlier visit left at the given time
Stored(jobList, time) == CacheJobsData(NoSnapshot, jobList, time).storage

\* lines 45-52: the fields of a new service
NewService ==
  /\ jobs = <<>>
  /\ initialized = FALSE
  /\ miniSearch = NoIndex
  /\ searchCache = EmptyCache
  /\ transformationCache = EmptyCache
  /\ dataLoadPromise = 0
  /\ loads = <<>>
  /\ waiting = <<>>
  /\ hook = Unmounted
  /\ sinceClose = [loads |-> 0, fetches |-> 0]
  /\ now = 0
  /\ last = NoCall
  /\ searchBar = NewSearchBar

Constructed ==
  /\ server \in JobLists
  /\ storage \in {NoSnapshot, Stored(server, 0 - MaxAge), Stored(server, 0 - MaxAge - 1)}
  /\ NewService

InitService ==
  /\ Constructed
  /\ client = [queries |-> {"java"}, locations |-> {}, pages |-> {<<0, 0>>}]
  /\ stepsLeft = MaxSteps + 2

NextService ==
  \/ InitCall
  \/ GetAllJobs
  \/ SearchJobs
  \/ FetchSettles
  \/ InitContinues
  \/ OpContinues
  \/ Close

SpecInit == InitService /\ [][NextService]_vars

\* C9: between two close() calls fetch() is called at most once; a call that
\* has to wait for init() while a load exists waits for that load and starts
\* none; and init() called on an initialized service changes nothing.
C9_InitIdempotent ==
  [][/\ sinceClose'.fetches <= 1
     /\ (Len(waiting') > Len(waiting) /\ dataLoadPromise # 0) =>
          /\ waiting'[Len(waiting')].load = dataLoadPromise
          /\ UNCHANGED <<loads, sinceClose>>
     /\ (initialized /\ IsCallStep /\ last'.op = "init") =>
          UNCHANGED <<svcVars, loadVars, waiting>>]_vars

\* init() and a query method wait for the one fetch in flight
C9_Witness ==
  /\ Len(waiting) >= 2
  /\ dataLoadPromise # 0
  /\ loads[dataLoadPromise] = "pending"
  /\ \A i \in 1..Len(waiting) : waiting[i].load = dataLoadPromise
  /\ \E i, j \in 1..Len(waiting) : waiting[i].call.op = "init" /\ waiting[j].call.op # "init"
  /\ sinceClose.fetches = 1

(***************************************************************************)
(* The hook on a service that may be closed while it is in use.            *)
(***************************************************************************)
InitHook ==
  /\ Constructed
  /\ client = [queries |-> {"java", "senior"}, locations |-> {"bern"}, pages |-> {}]
  /\ stepsLeft = MaxSteps + 1

NextHook ==
  \/ Mount
  \/ RunEffect
  \/ SetProps
  \/ HookSearch
  \/ LoadMore
  \/ FetchSettles
  \/ InitContinues
  \/ OpContinues
  \/ Close

SpecHook == InitHook /\ [][NextHook]_vars

\* C10: the result of a load or search is never displayed in place of the
\* result of a load or search that was started after it.
C10_StaleDiscarded == [][hook'.shown >= hook.shown]_vars

\* C11: a page that loadMore() appends is the next page of the call whose
\* result is displayed: the same method, query and location, at the offset
\* that follows the pages displayed so far.
C11_LoadMoreContinuesActive ==
  [][hook'.appended = hook.appended + 1 =>
       /\ last'.op = hook.active.op
       /\ last'.query = hook.active.query
       /\ last'.location = hook.active.location
       /\ last'.limit = ChunkSize
       /\ last'.offset = hook'.appended * ChunkSize
       /\ hook'.jobs = hook.jobs \o last'.jobs]_vars

\* C12: every DisplayJob that getJobsByLocation(n) returns has a location
\* string that contains n, compared case-insensitively.
C12_OnlyMatchingLocations ==
  last.op = "getJobsByLocation" =>
    \A i \in 1..Len(last.jobs) :
      Includes(ToLowerCase(last.jobs[i].location), ToLowerCase(last.location.name))

(***************************************************************************)
(* The query methods called with an empty and with a blank query.          *)
(***************************************************************************)
InitBlank ==
  /\ Loaded
  /\ client = [queries |-> {"", " "}, locations |-> {"bern"},
               pages |-> {<<0, 0>>, <<1, 0>>}]
  /\ stepsLeft = MaxSteps

SpecBlank == InitBlank /\ [][Next]_vars

\* the operation without text that a search method stands for
NoTextOp(op, location, limit, offset) ==
  IF op = "searchJobsByLocation"
  THEN GetJobsByLocationOp(searchCache, transformationCache, location.name, limit, offset)
  ELSE GetAllJobsOp(searchCache, transformationCache, limit, offset)

\* C13: a search method called with an empty or whitespace-only query does
\* not query the index and returns the jobs and the total of the operation
\* without text (getAllJobs, or getJobsByLocation when a location is given).
C13_BlankQueryIsNoText ==
  [][(/\ IsCallStep
      /\ last'.op \in {"searchJobs", "searchJobsByLocation", "searchJobsOptimized"}
      /\ Trim(last'.query) = "")
     => LET r == NoTextOp(last'.op, last'.location, last'.limit, last'.offset)
        IN /\ ~last'.searched
           /\ last'.jobs = r.jobs]_vars

\* C14: the total of a search depends only on the method, the query and the
\* location: a call that repeats the previous one with any offset and limit,
\* served from the result cache or computed, reports the same total.
C14_TotalConsistent ==
  [][(/\ last'.op \in {"searchJobs", "searchJobsByLocation", "searchJobsOptimized"}
      /\ last.op = last'.op
      /\ last.query = last'.query
      /\ last.location = last'.location)
     => last'.total = last.total]_vars

\* C15: a location gets a DisplayJob of its own exactly when both of its
\* coordinates are finite numbers, 0 included: after getAllJobs() with no
\* limit, a location of a record is shown with its coordinates if and only if
\* it is valid in that sense.
C15_ValidIffFiniteNumbers ==
  (last.op = "getAllJobs" /\ last.limit = 0 /\ last.offset = 0) =>
    \A r \in 1..Len(jobs) : \A k \in 1..Len(jobs[r].locations) :
      LET loc == jobs[r].locations[k]
      IN IsValidBySpec(loc) <=>
           \E i \in 1..Len(last.jobs) :
              /\ last.jobs[i].originalId = jobs[r].id
              /\ last.jobs[i].latitude = loc.latitude
              /\ last.jobs[i].longitude = loc.longitude
              /\ last.jobs[i].location = LocatedJob(jobs[r], loc, "").location

\* C16: the list of jobs the hook displays, the first page and the pages
\* loadMore() appended to it, holds no id twice.
C16_AccumulatedIdsDistinct == DistinctIds(hook.jobs)

(***************************************************************************)
(* init() with the snapshots a browser can hold: absent, fresh, on the     *)
(* threshold, expired, damaged or incomplete, and with a localStorage that *)
(* refuses access or has no room.                                          *)
(***************************************************************************)
Earlier == <<JobB>>

Snapshots ==
  LET fresh == Stored(Earlier, 1 - MaxAge)
      expired == Stored(Earlier, 0 - MaxAge - 1)
  IN {NoSnapshot, fresh, Stored(Earlier, 0 - MaxAge), expired,
      [fresh EXCEPT !.parses = FALSE, !.jobsData = <<>>],
      [fresh EXCEPT !.parses = FALSE, !.jobsData = <<>>, !.access = "full"],
      [fresh EXCEPT !.numeric = FALSE, !.jobsDataTimestamp = 0],
      [fresh EXCEPT !.hasTimestamp = FALSE, !.jobsDataTimestamp = 0],
      [fresh EXCEPT !.hasData = FALSE, !.jobsData = <<>>],
      [fresh EXCEPT !.access = "denied"],
      [NoSnapshot EXCEPT !.access = "denied"],
      [NoSnapshot EXCEPT !.access = "full"],
      [expired EXCEPT !.access = "full"],
      [NoSnapshot EXCEPT !.access = "once"]}

InitStorage ==
  /\ server \in JobLists
  /\ storage \in Snapshots
  /\ NewService
  /\ client = [queries |-> {"java"}, locations |-> {}, pages |-> {<<0, 0>>}]
  /\ stepsLeft = MaxSteps

SpecStorage == InitStorage /\ [][NextService]_vars

\* a step in which performDataLoad() is called, and the load it starts
LoadStarts == Len(loads') = Len(loads) + 1

Started == loads'[Len(loads')]

\* reading the snapshot throws: localStorage refuses access, or the stored
\* jobsData is not JSON
ReadFails(st) == st.access = "denied" \/ (st.hasData /\ ~st.parses)

\* writing the snapshot throws
WriteFails(st) == st.access \in {"denied", "full", "once"}

\* C17: a failing snapshot read or write never makes a load fail.  A load
\* never starts out rejected, and one whose read fails goes on to fetch; a
\* load that ends rejected has changed neither the records nor the
\* snapshot (its fetch failed), and any other load that ends has the fetched
\* records loaded, whether or not they could be written.
C17_SnapshotFailuresHarmless ==
  [][/\ LoadStarts =>
          /\ Started # "rejected"
          /\ ReadFails(storage) =>
               /\ Started = "pending"
               /\ sinceClose'.fetches = sinceClose.fetches + 1
               /\ UNCHANGED jobs
     /\ \A l \in 1..Len(loads) :
          (loads[l] = "pending" /\ loads'[l] # "pending") =>
             \/ loads'[l] = "rejected" /\ UNCHANGED <<jobs, storage>>
             \/ loads'[l] = "resolved" /\ jobs' = server]_vars

\* init() has resolved with the fetched records although they could not be
\* written, and a load has fetched because the snapshot could not be read
C17_Witness ==
  /\ WriteFails(storage)
  /\ ReadFails(storage)
  /\ initialized /\ jobs = server
  /\ last.op = "init" /\ ~last.rejected
  /\ loads = <<"resolved">> /\ sinceClose.fetches = 1

\* a usable snapshot: both items readable and present, the records parse and
\* the age is below 24 hours
Usable(st, time) ==
  /\ st.access # "denied"
  /\ st.hasData /\ st.parses
  /\ st.hasTimestamp /\ st.numeric
  /\ time - st.jobsDataTimestamp < MaxAge

\* C18: a load that finds a usable snapshot resolves at once with the
\* snapshot's records and without a fetch; no load starts out rejected, and
\* one ends rejected only out of a pending fetch that changed nothing (the
\* fetch failed), so that a rejected load had no usable snapshot.  A call
\* that waited in init() is rejected exactly when its load is rejected, and
\* otherwise leaves the service initialized.
C18_InitRejectsIffNoSnapshotAndFetchFails ==
  [][/\ LoadStarts =>
          /\ Started # "rejected"
          /\ Usable(storage, now) =>
               /\ Started = "resolved"
               /\ sinceClose'.fetches = sinceClose.fetches
               /\ jobs' = storage.jobsData
          /\ Started = "pending" => sinceClose'.fetches = sinceClose.fetches + 1
     /\ \A l \in 1..Len(loads) :
          loads'[l] # loads[l] =>
             /\ loads[l] = "pending"
             /\ loads'[l] = "rejected" => UNCHANGED <<jobs, storage>>
     /\ Runnable("init") # {} =>
          LET i == First(Runnable("init"))
              call == waiting[i].call
          IN IF loads[waiting[i].load] = "rejected"
             THEN /\ last' = Settled(call, TRUE)
                  /\ UNCHANGED initialized
                  /\ Len(waiting') = Len(waiting) - 1
             ELSE /\ initialized'
                  /\ IF call.op = "init"
                     THEN last' = Settled(call, FALSE)
                     ELSE waiting'[i].stage = "op" /\ UNCHANGED last]_vars

\* init() was rejected: the snapshot was not usable and the fetch failed
C18_Witness ==
  /\ last.op = "init" /\ last.rejected
  /\ ~initialized
  /\ loads = <<"rejected">>
  /\ sinceClose.fetches = 1
  /\ ~Usable(storage, now)
  /\ waiting = <<>>

\* C19: a load uses the snapshot only when both items are present and the
\* age is below 24 hours; a load that finds both items and an age of 24
\* hours or more removes both and fetches, and the fetched records are then
\* written with the time of the write.
C19_SnapshotOnlyWhenFresh ==
  [][/\ LoadStarts =>
          /\ Started = "resolved" => Usable(storage, now)
          /\ (/\ storage.access # "denied"
              /\ storage.hasData /\ storage.hasTimestamp /\ storage.numeric
              /\ now - storage.jobsDataTimestamp >= MaxAge)
             => /\ Started = "pending"
                /\ ~storage'.hasData /\ ~storage'.hasTimestamp
     /\ \A l \in 1..Len(loads) :
          (loads[l] = "pending" /\ loads'[l] = "resolved" /\ storage.access = "ok") =>
             /\ storage'.hasData /\ storage'.jobsData = JsonRoundTrip(server)
             /\ storage'.hasTimestamp /\ storage'.jobsDataTimestamp = now]_vars

(***************************************************************************)
(* The search methods called with queries of two tokens.                   *)
(***************************************************************************)
InitTokens ==
  /\ Loaded
  /\ client = [queries |-> {"java basel", "senior java"}, locations |-> {"bern"},
               pages |-> {<<0, 0>>, <<1, 0>>}]
  /\ stepsLeft = MaxSteps

SpecTokens == InitTokens /\ [][Next]_vars

\* the record has, for every token of the query, a field that matches it
MatchesAllTokens(job, query) ==
  LET doc == SearchDocuments(<<job>>)[1]
      terms == Tokenize(query)
  IN \A t \in 1..Len(terms) : TermScore(doc, terms[t]) > 0

\* C20: every DisplayJob a search method returns for a query of several
\* tokens is made from a record that matches all of the tokens.
C20_AllTokensMatch ==
  last.op \in {"searchJobs", "searchJobsByLocation", "searchJobsOptimized"} =>
    \A i \in 1..Len(last.jobs) :
      \E r \in 1..Len(jobs) :
         /\ jobs[r].id = last.jobs[i].originalId
         /\ last.jobs[i].title = PlaceholderJob(jobs[r], "").title
         /\ last.jobs[i].company = PlaceholderJob(jobs[r], "").company
         /\ MatchesAllTokens(jobs[r], last.query)

\* C21: the records a search obtains from the hits of the index are the
\* records the hit documents were built from, in the order of the hits.
C21_HitsResolveToOwners ==
  (last.op \in {"searchJobs", "searchJobsByLocation", "searchJobsOptimized"}
     /\ last.searched) =>
    LET hits == MiniSearchSearch(miniSearch, last.keyQuery)
        owner(h) == jobs[CHOOSE i \in 1..Len(jobs) : miniSearch.docs[i].id = h]
    IN MatchedJobs(jobs, hits) = [k \in 1..Len(hits) |-> owner(hits[k])]

\* C22: a query method changes no record, and the DisplayJobs that
\* getAllJobs and getJobsByLocation return for a batch are those a transform
\* of the same batch gives on a service that has transformed nothing yet:
\* the result depends on the batch, the offset and the limit only.
C22_TransformDeterministic ==
  [][IsCallStep =>
       /\ jobs' = jobs
       /\ last'.op \in {"getAllJobs", "getJobsByLocation"} =>
            LET batch == IF last'.op = "getAllJobs" THEN jobs
                         ELSE FilterByLocation(jobs, last'.location.name)
            IN last'.jobs = TransformJobsToTransformedJobs(
                              EmptyCache, batch, last'.offset, last'.limit).results]_vars

\* C23: a text search called while the index is not built and no live cache
\* entry exists for its key returns {jobs: [], total: 0} and is not
\* rejected.  The index is not built when the call is made on a service
\* that is not initialized (such a call settles in a later step) or on an
\* initialized service without index.
C23_NoIndexNoResults ==
  [][(/\ last' # last
      /\ last'.op \in {"searchJobs", "searchJobsByLocation", "searchJobsOptimized"}
      /\ \/ ~IsCallStep
         \/ initialized /\ ~miniSearch.built /\ ~last'.hit)
     => /\ ~last'.rejected
        /\ last'.jobs = <<>>
        /\ last'.total = 0]_vars

(***************************************************************************)
(* The query methods on records with missing fields: no title, no         *)
(* company, no locations, locations without city, address or coordinates. *)
(***************************************************************************)
MalformedJobs ==
  <<[id |-> "m", title |-> "", company |-> "", locations |-> <<>>],
    [id |-> "n", title |-> "", company |-> "acme",
     locations |-> <<[city |-> "", address |-> "", latitude |-> Undefined,
                      longitude |-> Undefined]>>],
    [id |-> "o", title |-> "java", company |-> "",
     locations |-> <<[city |-> "", address |-> "Bernweg 2", latitude |-> Num(46),
                      longitude |-> Num(7)],
                     [city |-> "Bern", address |-> "", latitude |-> Null,
                      longitude |-> Text]>>]>>

InitMalformed ==
  /\ LoadedFrom({SubSeq(MalformedJobs, a, b) : a, b \in 1..Len(MalformedJobs)} \ {<<>>})
  /\ client = [queries |-> {"java"}, locations |-> {"bern"}, pages |-> {<<0, 0>>, <<1, 1>>}]
  /\ stepsLeft = MaxSteps

SpecMalformed == InitMalformed /\ [][Next]_vars

C25_CloseEmptiesCache ==
  [][/\ (last'.op = "close" /\ stepsLeft' = stepsLeft - 1) => searchCache' = EmptyCache
     /\ (last.op = "close" /\ last'.read) => ~last'.hit
     /\ (last' # last /\ last'.read) =>
          /\ last'.hit => last'.key \in DOMAIN searchCache
          /\ UNCHANGED storage]_vars

\* close() was called with entries in the result cache and dropped them
C25_Witness ==
  /\ last.op = "close" /\ last.evicted
  /\ searchCache = EmptyCache
  /\ ~initialized

\* C26: getJobsByLocation(n) and searchJobsByLocation(q, n) select records:
\* every returned DisplayJob has the id of a record with a location whose
\* city or address contains n (and, for the search, that matches q), and
\* every such record of the requested range of records has a DisplayJob in
\* the result (for the search: when the whole range is requested).
C26_RecordLevelSelection ==
  last.op \in {"getJobsByLocation", "searchJobsByLocation"} =>
    LET name == ToLowerCase(last.location.name)
        selected(job) ==
          /\ \E k \in 1..Len(job.locations) :
                \/ Includes(ToLowerCase(job.locations[k].city), name)
                \/ Includes(ToLowerCase(job.locations[k].address), name)
          /\ last.op = "searchJobsByLocation" => MatchesAllTokens(job, last.query)
        range == Paginate(SelectSeq(jobs, selected), last.offset, last.limit)
    IN /\ \A i \in 1..Len(last.jobs) :
            \E r \in 1..Len(jobs) :
               jobs[r].id = last.jobs[i].originalId /\ selected(jobs[r])
       /\ (last.op = "getJobsByLocation" \/ (last.limit = 0 /\ last.offset = 0)) =>
            \A r \in 1..Len(range) :
               \E i \in 1..Len(last.jobs) : last.jobs[i].originalId = range[r].id

\* C27: when an operation of the hook ends, loading is false; error is
\* empty when the operation succeeded (the hook became initialized, a
\* result was displayed or a page was appended) and holds the message when
\* the service call was rejected.
C27_LoadingAndErrorSettle ==
  [][/\ (\/ hook'.initialized /\ ~hook.initialized
         \/ hook'.shown # hook.shown
         \/ hook'.appended = hook.appended + 1)
        => ~hook'.loading /\ hook'.error = ""
     /\ (/\ Runnable("init") # {}
         /\ waiting[First(Runnable("init"))].call.caller = "hook"
         /\ loads[waiting[First(Runnable("init"))].load] = "rejected")
        => ~hook'.loading /\ hook'.error # ""]_vars

(***************************************************************************)
(* JobDatabase, src/lib/database.ts: the variant that keeps the records in *)
(* SQLite tables.                                                          *)
(***************************************************************************)
\* lines 182-263: loadJobsFromJSON, [threw, jobs]: the records inserted into
\* the jobs table, each with the locations inserted for it.  Records without
\* a valid location are skipped; a second record with an id already
\* inserted violates the primary key and the transaction is rolled back.
LoadJobsFromJSON(jobList) ==
  LET hasValid(job) == ValidLocations(job) # <<>>
      kept == SelectSeq(jobList, hasValid)
      inserted == [i \in 1..Len(kept) |->
                     [kept[i] EXCEPT !.locations = ValidLocations(kept[i])]]
      duplicate == \E i, j \in 1..Len(kept) : i < j /\ kept[i].id = kept[j].id
  IN IF duplicate THEN [threw |-> TRUE, jobs |-> <<>>]
     ELSE [threw |-> FALSE, jobs |-> inserted]

\* lines 265-316: JobDatabase.getAllJobs, the rows of the join of jobs and
\* locations as a set of DisplayJobs (the query has no ORDER BY)
DatabaseGetAllJobs(db) ==
  UNION {{LocatedJob(db.jobs[i], db.jobs[i].locations[rank],
                     db.jobs[i].id \o "-" \o ToString(rank)) :
            rank \in 1..Len(db.jobs[i].locations)} : i \in 1..Len(db.jobs)}

\* C28: loaded with the same records, JobDatabase.getAllJobs() and
\* OptimizedJobsDataService.getAllJobs() return DisplayJobs with the same
\* (originalId, location, latitude, longitude), placeholders included.
C28_VariantsAgree ==
  (last.op = "getAllJobs" /\ last.limit = 0 /\ last.offset = 0) =>
    LET content(displayJob) == <<displayJob.originalId, displayJob.location,
                                 displayJob.latitude, displayJob.longitude>>
        db == LoadJobsFromJSON(jobs)
    IN /\ ~db.threw
       /\ {content(last.jobs[i]) : i \in 1..Len(last.jobs)}
            = {content(displayJob) : displayJob \in DatabaseGetAllJobs(db)}


\* C29: the result cache is transparent.  A searchJobs or
\* searchJobsByLocation call returns the items and the total it would return
\* with no entry in the result cache, whatever searches came before it.
C29_CacheTransparent ==
  [][(/\ last' # last
      /\ last'.op \in {"searchJobs", "searchJobsByLocation"}
      /\ last'.read)
     => LET uncached == Perform(last'.op, EmptyCache, transformationCache, now,
                                last'.query, last'.location, last'.limit, last'.offset)
        IN last'.jobs = uncached.jobs /\ last'.total = uncached.total]_vars


\* C30: load-more reaches the end.  hasMore is false only when the displayed
\* list holds every DisplayJob of the listing or search on display, so that
\* calling loadMore() while hasMore is true ends with the whole result shown.
C30_NoMoreOnlyWhenAllShown ==
  (hook.shown > 0 /\ initialized /\ ~hook.hasMore) =>
    LET content(displayJob) == <<displayJob.originalId, displayJob.location,
                                 displayJob.latitude, displayJob.longitude>>
        whole == Perform(hook.active.op, EmptyCache, EmptyCache, now, hook.active.query,
                         hook.active.location, 0, 0).jobs
    IN \A i \in 1..Len(whole) :
         \E k \in 1..Len(hook.jobs) : content(hook.jobs[k]) = content(whole[i])


(***************************************************************************)
(* loadMore() invoked twice by one task, before the hook renders again.    *)
(* Both invocations run the function of the same render, so both read the  *)
(* loading, hasMore and currentOffset of that render (part_009 lines 118,  *)
(* 133-153 and the dependency list of line 165).  On an initialized        *)
(* service each call runs to its return inside the invocation, and the two *)
(* continuations follow in the order of the calls; the updates of lines    *)
(* 156-157 are functional, so each applies to the state the other left.    *)
(***************************************************************************)
LoadMoreTwice ==
  /\ hook.mounted /\ stepsLeft > 0 /\ Quiet
  /\ hook.initialized /\ ~hook.loading /\ hook.hasMore
  /\ initialized
  /\ stepsLeft' = stepsLeft - 1
  /\ \E call \in {LoadJobsCall("more", hook.requests, hook.searchQuery,
                                hook.selectedLocation, hook.currentOffset)} :
       \E first \in {PerformCall(call)} :
         \E second \in {Perform(call.op, first.sc, first.tc, now, call.query,
                                call.location, call.limit, call.offset)} :
           LET started == [hook EXCEPT !.loading = TRUE, !.error = ""]
           IN /\ Called(call, second)
              /\ hook' = HookReceives(HookReceives(started, call, first, Len(jobs)),
                                      call, second, Len(jobs))
  /\ UNCHANGED <<jobs, initialized, miniSearch, loadVars, waiting, server, now, client, searchBar>>

NextRender ==
  \/ NextHook
  \/ LoadMoreTwice

SpecRender == InitHook /\ [][NextRender]_vars

\* C31: at most one loadMore() is effective at a time.  Whatever one task
\* does, invoking loadMore() twice included, it appends at most one page to
\* the displayed list, the page fetched at the offset that follows the
\* pages displayed, and advances the offset by one page.
C31_OneLoadMoreAtATime ==
  [][hook'.appended > hook.appended =>
       /\ hook'.appended = hook.appended + 1
       /\ last'.offset = hook.currentOffset
       /\ hook'.jobs = hook.jobs \o last'.jobs
       /\ hook'.currentOffset = hook.currentOffset + ChunkSize]_vars


(***************************************************************************)
(* The hook on a service whose snapshot cannot be written (the quota of    *)
(* localStorage is exceeded), so that every load after a close() fetches   *)
(* and calls of the hook can be in flight while the props change.          *)
(***************************************************************************)
InitSuperseded ==
  /\ server \in JobLists
  /\ storage = [NoSnapshot EXCEPT !.access = "full"]
  /\ NewService
  /\ client = [queries |-> {"java"}, locations |-> {}, pages |-> {}]
  /\ stepsLeft = MaxSteps + 2

SpecSuperseded == InitSuperseded /\ [][NextHook]_vars

\* C32: a page is appended only to the result it was fetched for.  When the
\* continuation of a loadMore() appends its page and advances the offset,
\* the displayed result is not one of a load or search that was started
\* after that loadMore() (call.seq is the number of the latest load or
\* search started before it).
C32_AppendedPageBelongsToDisplayed ==
  [][(hook'.appended = hook.appended + 1 /\ Runnable("init") = {} /\ Runnable("op") # {})
     => waiting[First(Runnable("op"))].call.seq >= hook.shown]_vars


\* C33: a failed load can be retried.  A call that has to wait for init()
\* when the load the service holds has already failed (no close() since)
\* starts a new load instead of waiting for the failed one.
C33_FailedLoadRetried ==
  [][(/\ Len(waiting') > Len(waiting)
      /\ dataLoadPromise # 0
      /\ loads[dataLoadPromise] = "rejected")
     => /\ dataLoadPromise' # dataLoadPromise
        /\ waiting'[Len(waiting')].load = dataLoadPromise']_vars


\* C34: the transformation cache is transparent.  Whatever was transformed
\* before, a query method that transforms a record list (all records, the
\* records of a location, or the ranked records a search keeps) returns the
\* sequence an uncached transform of that list, offset and limit gives, in
\* the order of the list.
C34_TransformationCacheTransparent ==
  [][(last' # last /\ ~last'.rejected /\ ~last'.hit /\ (last'.searched \/ ~last'.read)
      /\ last'.op \in {"getAllJobs", "getJobsByLocation", "searchJobs",
                       "searchJobsByLocation", "searchJobsOptimized"})
     => LET batch == IF last'.searched THEN Survivors(last'.keyQuery, last'.location)
                     ELSE IF last'.op = "getJobsByLocation"
                     THEN FilterByLocation(jobs, last'.location.name)
                     ELSE jobs
        IN last'.jobs = TransformBatch(batch, last'.offset, last'.limit)]_vars


\* C35: while no operation of the hook is in flight, the number of displayed
\* jobs does not exceed totalJobs.
C35_DisplayedAtMostTotal ==
  (hook.mounted /\ ~hook.loading /\ Quiet /\ waiting = <<>>) =>
    Len(hook.jobs) <= hook.totalJobs


\* C36: close() is final until the next init().  The service becomes
\* initialized only when a call resumes that waited for the load the service
\* holds (not for one that a close() has dropped), and no two fetches are
\* in flight at the same time.
C36_CloseIsFinal ==
  [][/\ (initialized' /\ ~initialized) =>
          /\ Runnable("init") # {}
          /\ waiting[First(Runnable("init"))].load = dataLoadPromise
     /\ Cardinality({l \in 1..Len(loads') : loads'[l] = "pending"}) <= 1]_vars


(***************************************************************************)
(* The lifecycle of the service: init(), close(), reinitializeSearch() and *)
(* query methods in any order, with loads in flight, while the file        *)
(* /all_jobs.json may be replaced on the server between two fetches.       *)
(***************************************************************************)
\* lines 465-470
ReinitializeSearch ==
  /\ stepsLeft > 0 /\ Quiet
  /\ stepsLeft' = stepsLeft - 1
  /\ miniSearch' = IF Len(jobs) > 0 THEN InitializeMiniSearch(jobs) ELSE miniSearch
  /\ last' = [NoCall EXCEPT !.op = "reinitializeSearch"]
  /\ UNCHANGED <<jobs, initialized, searchCache, transformationCache, loadVars, server,
                 waiting, hook, now, client, searchBar>>

\* line 138: what a later fetch of /all_jobs.json returns; the file is
\* replaced by an empty list or by an earlier one
Publish ==
  /\ stepsLeft > 0 /\ Quiet
  /\ stepsLeft' = stepsLeft - 1
  /\ server' \in {<<>>, Earlier} \ {server}
  /\ UNCHANGED <<svcVars, loadVars, waiting, hook, now, client, searchBar, last>>

InitLifecycle ==
  /\ server \in JobLists
  /\ storage \in {NoSnapshot, [NoSnapshot EXCEPT !.access = "full"]}
  /\ NewService
  /\ client = [queries |-> {"java"}, locations |-> {}, pages |-> {<<0, 0>>}]
  /\ stepsLeft = MaxSteps + 2

NextLifecycle ==
  \/ NextService
  \/ ReinitializeSearch
  \/ Publish

SpecLifecycle == InitLifecycle /\ [][NextLifecycle]_vars

\* C37: whenever the service is initialized and holds records, and no
\* init() is about to resume after its load, the search index is built and
\* holds one document per record of the current record set, in record order.
C37_IndexMatchesRecords ==
  (initialized /\ Len(jobs) > 0 /\ Runnable("init") = {}) =>
    /\ miniSearch.built
    /\ miniSearch.docs = SearchDocuments(jobs)

\* an init() that waited for a load dropped by close() has initialized the
\* service with records the server no longer holds, the index built before
\* having been dropped or built from other records
C37_Witness ==
  /\ initialized /\ Len(jobs) > 1 /\ Runnable("init") = {}
  /\ dataLoadPromise = 0
  /\ jobs # server
  /\ miniSearch.docs = SearchDocuments(jobs)


(***************************************************************************)
(* SearchBar, src/components/search-bar.tsx.  The timer of line 47 fires   *)
(* 300 ms after it was set unless clearTimeout was called for it; an event *)
(* that comes before DebounceTimeoutFires comes within those 300 ms.       *)
(***************************************************************************)
\* lines 37-54: the user edits the input, value is e.target.value
HandleInputChange ==
  /\ stepsLeft > 0
  /\ stepsLeft' = stepsLeft - 1
  /\ \E value \in {"", " ", "java", "java ", "rust"} :
       /\ value # searchBar.query
       /\ searchBar' = [searchBar EXCEPT !.query = value,
                                         !.debounceTimeout = [pending |-> TRUE, value |-> value]]
  /\ UNCHANGED <<svcVars, loadVars, server, waiting, hook, now, client, last>>

\* lines 47-53: the callback of the timer
DebounceTimeoutFires ==
  /\ searchBar.debounceTimeout.pending
  /\ searchBar' = [searchBar EXCEPT
                     !.debounceTimeout.pending = FALSE,
                     !.onSearch = [called |-> TRUE,
                                   query |-> Trim(searchBar.debounceTimeout.value)]]
  /\ UNCHANGED <<svcVars, loadVars, server, waiting, hook, now, client, last, stepsLeft>>

\* lines 25-30: the form is submitted
HandleSubmit ==
  /\ stepsLeft > 0
  /\ stepsLeft' = stepsLeft - 1
  /\ searchBar' = IF Trim(searchBar.query) # ""
                  THEN [searchBar EXCEPT !.onSearch = [called |-> TRUE,
                                                       query |-> Trim(searchBar.query)]]
                  ELSE searchBar
  /\ UNCHANGED <<svcVars, loadVars, server, waiting, hook, now, client, last>>

\* lines 32-35 and 97-100: the clear button, rendered while query is not empty
HandleClear ==
  /\ stepsLeft > 0 /\ searchBar.query # ""
  /\ stepsLeft' = stepsLeft - 1
  /\ searchBar' = [searchBar EXCEPT !.query = "",
                                    !.onSearch = [called |-> TRUE, query |-> ""]]
  /\ UNCHANGED <<svcVars, loadVars, server, waiting, hook, now, client, last>>

InitSearchBar ==
  /\ server = <<>>
  /\ storage = NoSnapshot
  /\ NewService
  /\ client = [queries |-> {}, locations |-> {}, pages |-> {}]
  /\ stepsLeft = MaxSteps + 3

NextSearchBar ==
  \/ HandleInputChange
  \/ DebounceTimeoutFires
  \/ HandleSubmit
  \/ HandleClear

SpecSearchBar == InitSearchBar /\ [][NextSearchBar]_vars

\* C38: the last user action determines the query delivered to onSearch.
\* Once no debounce timer is pending, the value of the last onSearch call
\* is the trimmed text of the input.
C38_LastActionDetermines ==
  (searchBar.onSearch.called /\ ~searchBar.debounceTimeout.pending) =>
    searchBar.onSearch.query = Trim(searchBar.query)

=============================================================================
